---- MODULE Spec2Model ----
(***************************************************************************)
(* nu_plugin_cer: the `cer` command.  One call of Cer::run takes the       *)
(* pipeline input and the call's flags, decodes the certificates of a PEM  *)
(* text or of a PFX container and returns one record per certificate.      *)
(*                                                                         *)
(* The library calls of the source (x509-parser, schannel, sha1_smol,      *)
(* data_encoding, chrono, nu_protocol) are modelled by what they return    *)
(* for the inputs enumerated below.                                        *)
(***************************************************************************)
EXTENDS Integers, Sequences, FiniteSets, TLC

\* ------------------------------------------------------------------ bounds

\* longest PEM text (in blocks) and largest PFX store (in certificates)
MaxCerts == 2

\* completed calls the history of SpecCalls remembers
MaxLog == 1

\* ----------------------------------------------------- Option and Result

None == <<>>
Some(v) == <<v>>

Ok(v) == [ok |-> TRUE, val |-> v]
Err(e) == [ok |-> FALSE, err |-> e]

\* iterator.map(F).collect::<Result<Vec<_>, _>>(): the items' values in
\* order, or the error of the first item that fails (later items are not
\* looked at)
RECURSIVE Collect(_, _)
Collect(F(_), xs) ==
    IF xs = <<>> THEN Ok(<<>>)
    ELSE LET h == F(Head(xs))
         IN  IF ~h.ok THEN h
             ELSE LET t == Collect(F, Tail(xs))
                  IN  IF ~t.ok THEN t ELSE Ok(<<h.val>> \o t.val)

\* ------------------------------------------------------ nu_protocol::Value

ValueString(s) == [type |-> "string", str |-> s]
ValueList(vs) == [type |-> "list", vals |-> vs]
ValueDate(d) == [type |-> "date", date |-> d]
ValueRecord(r) == [type |-> "record", rec |-> r]
ValueBinary(b) == [type |-> "binary", bin |-> b]
ValueBool(b) == [type |-> "bool", bool |-> b]
ValueInt(n) == [type |-> "int", int |-> n]
ValueNothing == [type |-> "nothing"]

\* Record::new and Record::push: the columns in the order they were pushed
RecordNew == <<>>
Push(rec, col, val) == Append(rec, <<col, val>>)

Columns(rec) == {rec[i][1] : i \in 1..Len(rec)}
Get(rec, col) == rec[CHOOSE i \in 1..Len(rec) : rec[i][1] = col][2]

\* ------------------------------------------------------------------ SHA-1
\* sha1_smol::Sha1::from(bytes) and CryptHashCertificate(CALG_SHA1): FIPS
\* 180-4 SHA-1 on a byte sequence.  A 32-bit word is <<high, low>>, two
\* 16-bit halves.

And16[a \in Nat, b \in Nat] ==
    IF a = 0 \/ b = 0 THEN 0
    ELSE ((a % 2) * (b % 2)) + 2 * And16[a \div 2, b \div 2]

Xor16(a, b) == a + b - 2 * And16[a, b]
Or16(a, b) == a + b - And16[a, b]
Not16(a) == 65535 - a

Words == Nat \X Nat

WAnd(x, y) == <<And16[x[1], y[1]], And16[x[2], y[2]]>>
WXor(x, y) == <<Xor16(x[1], y[1]), Xor16(x[2], y[2])>>
WOr(x, y) == <<Or16(x[1], y[1]), Or16(x[2], y[2])>>
WNot(x) == <<Not16(x[1]), Not16(x[2])>>
WAdd(x, y) ==
    LET lo == x[2] + y[2]
        hi == x[1] + y[1] + (lo \div 65536)
    IN  <<hi % 65536, lo % 65536>>

Pow2[n \in Nat] == IF n = 0 THEN 1 ELSE 2 * Pow2[n - 1]

\* rotate left by n bits, 0 < n < 32
RotHalves(x, n) ==
    <<((x[1] * Pow2[n]) % 65536) + (x[2] \div Pow2[16 - n]),
      ((x[2] * Pow2[n]) % 65536) + (x[1] \div Pow2[16 - n])>>
Rotl(x, n) == IF n < 16 THEN RotHalves(x, n) ELSE RotHalves(<<x[2], x[1]>>, n - 16)

\* the message, a 1 bit, zeros, and the length in bits as a 64-bit number
Pad(msg) ==
    LET n == Len(msg)
        z == (119 - n) % 64
        bits == n * 8
    IN  msg \o <<128>> \o [i \in 1..z |-> 0]
            \o <<0, 0, 0, 0, (bits \div 16777216) % 256, (bits \div 65536) % 256,
                 (bits \div 256) % 256, bits % 256>>

WordAt(bytes, k) == <<bytes[k] * 256 + bytes[k + 1], bytes[k + 2] * 256 + bytes[k + 3]>>

\* the 16 words of a block extended to the 80 of the message schedule
Schedule[w \in Seq(Words)] ==
    IF Len(w) = 80 THEN w
    ELSE LET t == Len(w) + 1
         IN  Schedule[Append(w,
                 Rotl(WXor(WXor(w[t - 3], w[t - 8]), WXor(w[t - 14], w[t - 16])), 1))]

RoundF(t, b, c, d) ==
    IF t < 20 THEN WOr(WAnd(b, c), WAnd(WNot(b), d))
    ELSE IF t < 40 THEN WXor(WXor(b, c), d)
    ELSE IF t < 60 THEN WOr(WOr(WAnd(b, c), WAnd(b, d)), WAnd(c, d))
    ELSE WXor(WXor(b, c), d)

\* 5A827999, 6ED9EBA1, 8F1BBCDC, CA62C1D6
RoundK(t) ==
    IF t < 20 THEN <<23170, 31129>>
    ELSE IF t < 40 THEN <<28377, 60321>>
    ELSE IF t < 60 THEN <<36635, 48348>>
    ELSE <<51810, 49622>>

Round(s, w, t) ==
    LET tmp == WAdd(WAdd(WAdd(WAdd(Rotl(s[1], 5), RoundF(t, s[2], s[3], s[4])), s[5]),
                         RoundK(t)), w[t + 1])
    IN  <<tmp, s[1], Rotl(s[2], 30), s[3], s[4]>>

\* ss holds the working variables after each of the rounds done so far
Rounds[ss \in Seq(Seq(Words)), w \in Seq(Words)] ==
    IF Len(ss) = 81 THEN ss[81]
    ELSE Rounds[Append(ss, Round(ss[Len(ss)], w, Len(ss) - 1)), w]

\* 67452301, EFCDAB89, 98BADCFE, 10325476, C3D2E1F0
Sha1Init ==
    <<<<26437, 8961>>, <<61389, 43913>>, <<39098, 56574>>, <<4146, 21622>>,
      <<50130, 57840>>>>

Sha1Blocks[h \in Seq(Words), bytes \in Seq(Nat), off \in Nat] ==
    IF off >= Len(bytes) THEN h
    ELSE LET w == Schedule[[i \in 1..16 |-> WordAt(bytes, off + 4 * (i - 1) + 1)]]
             s == Rounds[<<h>>, w]
         IN  Sha1Blocks[[i \in 1..5 |-> WAdd(h[i], s[i])], bytes, off + 64]

\* the five words of the hash once the padded message went through
Sha1State(msg) == Sha1Blocks[Sha1Init, Pad(msg), 0]

\* the 20 bytes of the digest, the words in big-endian order
DigestBytes(h) ==
    [i \in 1..20 |->
        LET half == h[((i - 1) \div 4) + 1][(((i - 1) % 4) \div 2) + 1]
        IN  IF (i - 1) % 2 = 0 THEN half \div 256 ELSE half % 256]

Sha1(msg) == DigestBytes(Sha1State(msg))

HexDigits ==
    <<"0", "1", "2", "3", "4", "5", "6", "7", "8", "9", "a", "b", "c", "d", "e", "f">>

\* data_encoding::HEXLOWER.encode, and the rendering of Digest::to_string
RECURSIVE HexLower(_)
HexLower(bytes) ==
    IF bytes = <<>> THEN ""
    ELSE HexDigits[(Head(bytes) \div 16) + 1] \o HexDigits[(Head(bytes) % 16) + 1]
             \o HexLower(Tail(bytes))

\* ----------------------------------------------------------------- base64
\* data_encoding::BASE64.decode, which Pem::read applies to the lines between
\* the BEGIN and END lines: the standard alphabet, padding required, and the
\* unused bits of the last symbol zero.  A text is a sequence of characters.

Base64Alphabet ==
    <<"A", "B", "C", "D", "E", "F", "G", "H", "I", "J", "K", "L", "M", "N", "O", "P",
      "Q", "R", "S", "T", "U", "V", "W", "X", "Y", "Z", "a", "b", "c", "d", "e", "f",
      "g", "h", "i", "j", "k", "l", "m", "n", "o", "p", "q", "r", "s", "t", "u", "v",
      "w", "x", "y", "z", "0", "1", "2", "3", "4", "5", "6", "7", "8", "9", "+", "/">>

IsBase64Symbol(c) == \E i \in 1..64 : Base64Alphabet[i] = c
Base64Value(c) == (CHOOSE i \in 1..64 : Base64Alphabet[i] = c) - 1

\* the bytes of one group of four characters; "=" pads the last group
Base64Group(g) ==
    IF ~(IsBase64Symbol(g[1]) /\ IsBase64Symbol(g[2])) THEN Err("symbol")
    ELSE LET a == Base64Value(g[1])
             b == Base64Value(g[2])
         IN  IF g[3] = "=" /\ g[4] = "="
             THEN IF b % 16 = 0 THEN Ok(<<(a * 4) + (b \div 16)>>) ELSE Err("trailing")
             ELSE IF ~IsBase64Symbol(g[3]) THEN Err("symbol")
             ELSE LET c == Base64Value(g[3])
                  IN  IF g[4] = "="
                      THEN IF c % 4 = 0
                           THEN Ok(<<(a * 4) + (b \div 16), ((b % 16) * 16) + (c \div 4)>>)
                           ELSE Err("trailing")
                      ELSE IF ~IsBase64Symbol(g[4]) THEN Err("symbol")
                      ELSE Ok(<<(a * 4) + (b \div 16), ((b % 16) * 16) + (c \div 4),
                                ((c % 4) * 64) + Base64Value(g[4])>>)

RECURSIVE Base64Decode(_)
Base64Decode(text) ==
    IF text = <<>> THEN Ok(<<>>)
    ELSE IF Len(text) < 4 THEN Err("length")
    ELSE LET g == Base64Group(SubSeq(text, 1, 4))
         IN  IF ~g.ok THEN g
             ELSE IF Len(g.val) < 3 /\ Len(text) > 4 THEN Err("padding")
             ELSE LET t == Base64Decode(SubSeq(text, 5, Len(text)))
                  IN  IF ~t.ok THEN t ELSE Ok(g.val \o t.val)

\* ------------------------------------------------------- error taxonomy

\* an underlying cause (PEMError, X509Error, Utf8Error, io::Error, ShellError)
Cause(type, variant) == [type |-> type, variant |-> variant]

\* format!("{}", source): the cause's Display text
Format(source) == source.type \o ": " \o source.variant

\* enum CerError: the variant and the #[source] it carries (Timestamp has none)
CerError(kind, source) == [kind |-> kind, source |-> source]

\* the #[error("...")] text of each variant: value.to_string()
ErrorString(value) ==
    CASE value.kind = "Pem" -> "cannot read certificate"
      [] value.kind = "Parse" -> "cannot parse certificate"
      [] value.kind = "CommonName" -> "cannot read common name"
      [] value.kind = "FriendlyName" -> "cannot read friendly name"
      [] value.kind = "Description" -> "cannot read description"
      [] value.kind = "DescriptionUtf8" -> "description is not valid utf8"
      [] value.kind = "San" -> "cannot read certificate subject alternative names"
      [] value.kind = "Timestamp" -> "cannot parse certificate timestamp"
      [] value.kind = "Pfx" -> "cannot parse pfx"
      [] value.kind = "Password" -> "password is not a string"
      [] value.kind = "Der" -> "cannot parse der"
      [] value.kind = "Fingerprint" -> "cannot read fingerprint"

\* nu_protocol::LabeledError: new, with_help, with_label
LabeledErrorNew(msg) == [msg |-> msg, help |-> None, labels |-> <<>>]
WithHelp(e, help) == [e EXCEPT !.help = Some(help)]
WithLabel(e, text, span) == [e EXCEPT !.labels = Append(@, [text |-> text, span |-> span])]

\* a variant converted without its help text
ToLabeledErrorNoHelp(value) == LabeledErrorNew(ErrorString(value))

\* impl From<CerError> for LabeledError
ToLabeledError(value) ==
    IF value.kind = "Timestamp" THEN LabeledErrorNew(ErrorString(value))
    ELSE WithHelp(LabeledErrorNew(ErrorString(value)), Format(value.source[1]))

\* impl From<ShellError> for LabeledError, for the `?` on has_flag
ShellToLabeledError(e) == LabeledErrorNew(Format(e))

\* --------------------------------------------------- parsed certificates
\* What x509-parser hands to the code for a certificate: the subject and
\* issuer names (attributes in order), the extensions and the not_after
\* bound of the validity.  An attribute value keeps its ASN.1 string type,
\* its text, and whether its bytes are valid UTF-8.

Attr(oid, enc, text, utf8) == [oid |-> oid, enc |-> enc, text |-> text, utf8 |-> utf8]
Text(oid, text) == Attr(oid, "UTF8String", text, TRUE)

DnsName(v) == [tag |-> "DNSName", value |-> v]
IpAddress(v) == [tag |-> "IPAddress", value |-> v]
Uri(v) == [tag |-> "URI", value |-> v]

\* an extension: its OID and what the parser made of its value
SanExtension(names) == [oid |-> "subjectAltName", parsed |-> Ok(names)]
UnparsedSanExtension == [oid |-> "subjectAltName", parsed |-> Err("unparsed")]
KeyUsageExtension == [oid |-> "keyUsage", parsed |-> Ok(<<>>)]

\* a timestamp of s seconds is <<s div 86400, s mod 86400>>: the days since
\* 1970-01-01 and the second of the day
Timestamp(days, secs) == <<days, secs>>

\* chrono's NaiveDate::MAX (262142-12-31) and NaiveDate::MIN (-262143-01-01)
\* in days since 1970-01-01: the dates DateTime::from_timestamp accepts
ChronoMaxDays == 95026236
ChronoMinDays == -96465293

Certificate(subject, issuer, extensions, not_after) ==
    [subject |-> subject, issuer |-> issuer, extensions |-> extensions,
     not_after |-> not_after]

ExampleIssuer ==
    <<Text("CN", "ca.com"), Attr("Email", "IA5String", "ca@example.com", TRUE),
      Text("O", "Example")>>

\* the certificate of the command's example
CerExample ==
    Certificate(<<Text("CN", "cer.com"),
                  Attr("Email", "IA5String", "cer@example.com", TRUE),
                  Text("O", "Example")>>,
                ExampleIssuer,
                <<KeyUsageExtension, SanExtension(<<DnsName("alternative.com")>>)>>,
                Timestamp(21915, 0))

\* no common name in the subject or in the issuer, no extension
CerBare ==
    Certificate(<<Text("O", "Example")>>, <<Text("O", "Root")>>, <<>>,
                Timestamp(21915, 43200))

\* two common names, the second a TeletexString whose bytes are UTF-8
CerTwoCn ==
    Certificate(<<Text("CN", "a.example"), Text("O", "Example"),
                  Attr("CN", "TeletexString", "b.example", TRUE)>>,
                ExampleIssuer,
                <<SanExtension(<<DnsName("a.example"), DnsName("b.example")>>)>>,
                Timestamp(21915, 0))

\* a subject common name that is not UTF-8, and a SAN extension the parser
\* could not read
CerBadCn ==
    Certificate(<<Text("CN", "ok.example"), Attr("CN", "TeletexString", "", FALSE)>>,
                ExampleIssuer, <<UnparsedSanExtension>>, Timestamp(21915, 0))

\* an issuer common name that is not UTF-8, and a not_after out of range
CerBadCa ==
    Certificate(<<Text("CN", "cer.com")>>,
                <<Attr("CN", "BMPString", "", FALSE)>>,
                <<SanExtension(<<DnsName("cer.com")>>)>>,
                Timestamp(ChronoMaxDays + 1, 0))

\* a SAN extension whose first entry is an IP address
CerSanIp ==
    Certificate(<<Text("CN", "cer.com")>>, ExampleIssuer,
                <<SanExtension(<<IpAddress("10.0.0.1"), DnsName("cer.com")>>)>>,
                Timestamp(21915, 0))

\* a SAN extension whose last entry is a URI
CerSanUri ==
    Certificate(<<Text("CN", "cer.com")>>, ExampleIssuer,
                <<SanExtension(<<DnsName("cer.com"), DnsName("www.cer.com"),
                                 Uri("https://cer.com")>>)>>,
                Timestamp(21915, 0))

\* the SAN extension twice, and an issuer common name that is not UTF-8
CerSanTwice ==
    Certificate(<<Text("CN", "cer.com")>>,
                <<Attr("CN", "TeletexString", "", FALSE)>>,
                <<SanExtension(<<DnsName("cer.com")>>),
                  SanExtension(<<DnsName("www.cer.com")>>)>>,
                Timestamp(21915, 0))

\* a SAN extension the parser could not read, nothing else wrong
CerSanBroken ==
    Certificate(<<Text("CN", "cer.com")>>, ExampleIssuer,
                <<KeyUsageExtension, UnparsedSanExtension>>, Timestamp(21915, 0))

\* a not_after before the first date chrono represents
CerBadExp ==
    Certificate(<<Text("CN", "cer.com")>>, ExampleIssuer, <<>>,
                Timestamp(ChronoMinDays - 1, 86399))

\* DER payloads (stand-ins of a few bytes for the real encodings)
DerExample == <<48, 130, 1, 1>>
DerBare == <<48, 130, 1, 2>>
DerTwoCn == <<48, 130, 1, 3>>
DerBadCn == <<48, 130, 1, 4>>
DerBadCa == <<48, 130, 1, 5>>
DerSanIp == <<48, 130, 1, 6>>
DerSanUri == <<48, 130, 1, 7>>
DerSanTwice == <<48, 130, 1, 8>>
DerBadExp == <<48, 130, 1, 9>>
DerSanBroken == <<48, 130, 1, 10>>
DerGarbage == <<97, 98, 99>>

\* X509Certificate::from_der and Pem::parse_x509 on each payload
DerTable ==
    <<[der |-> DerExample, cer |-> Ok(CerExample)],
      [der |-> DerBare, cer |-> Ok(CerBare)],
      [der |-> DerTwoCn, cer |-> Ok(CerTwoCn)],
      [der |-> DerBadCn, cer |-> Ok(CerBadCn)],
      [der |-> DerBadCa, cer |-> Ok(CerBadCa)],
      [der |-> DerSanIp, cer |-> Ok(CerSanIp)],
      [der |-> DerSanUri, cer |-> Ok(CerSanUri)],
      [der |-> DerSanTwice, cer |-> Ok(CerSanTwice)],
      [der |-> DerBadExp, cer |-> Ok(CerBadExp)],
      [der |-> DerSanBroken, cer |-> Ok(CerSanBroken)]>>

Ders == {DerTable[i].der : i \in 1..Len(DerTable)} \cup {DerGarbage, <<>>}

FromDer(der) ==
    IF \E i \in 1..Len(DerTable) : DerTable[i].der = der
    THEN DerTable[CHOOSE i \in 1..Len(DerTable) : DerTable[i].der = der].cer
    ELSE Err(Cause("X509Error", "InvalidCertificate"))

\* the base64 text of each payload, as a PEM block carries it
B64Example == <<"M", "I", "I", "B", "A", "Q", "=", "=">>
B64Bare == <<"M", "I", "I", "B", "A", "g", "=", "=">>
B64TwoCn == <<"M", "I", "I", "B", "A", "w", "=", "=">>
B64BadCn == <<"M", "I", "I", "B", "B", "A", "=", "=">>
B64BadCa == <<"M", "I", "I", "B", "B", "Q", "=", "=">>
B64SanIp == <<"M", "I", "I", "B", "B", "g", "=", "=">>
B64SanUri == <<"M", "I", "I", "B", "B", "w", "=", "=">>
B64SanTwice == <<"M", "I", "I", "B", "C", "A", "=", "=">>
B64BadExp == <<"M", "I", "I", "B", "C", "Q", "=", "=">>
B64SanBroken == <<"M", "I", "I", "B", "C", "g", "=", "=">>
B64Garbage == <<"Y", "W", "J", "j">>

\* ------------------------------------------------------------------- state

VARIABLES
    pc,       \* where the call is: idle, run, pem, pfx, done
    input,    \* the pipeline input of the call
    call,     \* the named arguments of the call: list and password
    iter,     \* the items the iterator of the decoder has not yielded yet
    values,   \* the Vec the decoder collects the records into
    result,   \* what run returned: None while it runs
    trace,    \* the steps the call has taken, in order
    log,      \* completed calls: input, call and result
    digest    \* the SHA-1 state of each payload, computed once (Sha1 is pure)

vars == <<pc, input, call, iter, values, result, trace, log, digest>>

\* Sha1::from(bytes).digest().bytes()
Sha1Of(bytes) == DigestBytes(digest[bytes])

\* ------------------------------------------------------ library accessors

\* the ASN.1 string types AttributeTypeAndValue::as_str reads
TextualTypes == {"NumericString", "PrintableString", "UTF8String", "IA5String"}

AsStr(attr) ==
    IF attr.enc \in TextualTypes /\ attr.utf8 THEN Ok(attr.text)
    ELSE Err(Cause("X509Error", "InvalidAttributes"))

\* std::str::from_utf8(attr.as_slice())
FromUtf8(attr) ==
    IF attr.utf8 THEN Ok(attr.text) ELSE Err(Cause("Utf8Error", "invalid utf-8 sequence"))

\* X509Name::iter_common_name
IterCommonName(name) == SelectSeq(name, LAMBDA a : a.oid = "CN")

\* X509Name::to_string: "CN=cer.com, O=Example"; a value as_str cannot read
\* is rendered from its bytes, here as "#"
RECURSIVE NameToString(_)
NameToString(name) ==
    IF name = <<>> THEN ""
    ELSE LET a == Head(name)
             v == IF AsStr(a).ok THEN a.text ELSE "#"
         IN  a.oid \o "=" \o v
                 \o (IF Len(name) = 1 THEN "" ELSE ", " \o NameToString(Tail(name)))

\* X509Certificate::subject_alternative_name: Ok(None) without the extension,
\* an error when it is there twice or was not parsed as a SAN, else its names
SubjectAlternativeName(cer) ==
    LET found == SelectSeq(cer.extensions, LAMBDA e : e.oid = "subjectAltName")
    IN  IF found = <<>> THEN Ok(None)
        ELSE IF Len(found) > 1 THEN Err(Cause("X509Error", "DuplicateExtensions"))
        ELSE IF ~found[1].parsed.ok THEN Err(Cause("X509Error", "InvalidExtensions"))
        ELSE Ok(Some(found[1].parsed.val))

\* DateTime::from_timestamp(timestamp, 0): None outside chrono's dates
FromTimestamp(timestamp) ==
    IF timestamp[1] >= ChronoMinDays /\ timestamp[1] <= ChronoMaxDays
    THEN Some([days |-> timestamp[1], secs |-> timestamp[2], nanos |-> 0])
    ELSE None

\* ---------------------------------------------------------- certificate.rs

\* the closure of parse_common_names
CommonNameValue(cn) ==
    LET as_str == AsStr(cn)
    IN  IF as_str.ok THEN Ok(ValueString(as_str.val))
        ELSE LET slice == FromUtf8(cn)
             IN  IF ~slice.ok THEN Err(CerError("CommonName", Some(slice.err)))
                 ELSE Ok(ValueString(slice.val))

ParseCommonNames(name) ==
    LET common_names == Collect(CommonNameValue, IterCommonName(name))
    IN  IF ~common_names.ok THEN common_names ELSE Ok(ValueList(common_names.val))

GetCommonNames(cer) == ParseCommonNames(cer.subject)

GetCaCommonNames(cer) == ParseCommonNames(cer.issuer)

GetSubject(cer) == ValueString(NameToString(cer.subject))

GetCaSubject(cer) == ValueString(NameToString(cer.issuer))

\* the closure of get_sans
SanValue(name) ==
    IF name.tag = "DNSName" THEN Ok(ValueString(name.value))
    ELSE Err(CerError("San", Some(Cause("X509Error", "InvalidCertificate"))))

\* non-DNS entries dropped instead of refused
GetSansLenient(cer) ==
    LET ext == SubjectAlternativeName(cer)
    IN  IF ~ext.ok THEN Err(CerError("San", Some(ext.err)))
        ELSE IF ext.val = None THEN Ok(ValueList(<<>>))
        ELSE Ok(ValueList([i \in 1..Len(SelectSeq(ext.val[1], LAMBDA n : n.tag = "DNSName"))
                             |-> ValueString(SelectSeq(ext.val[1],
                                                       LAMBDA n : n.tag = "DNSName")[i].value)]))

GetSans(cer) ==
    LET ext == SubjectAlternativeName(cer)
    IN  IF ~ext.ok THEN Err(CerError("San", Some(ext.err)))
        ELSE IF ext.val = None THEN Ok(ValueList(<<>>))
        ELSE LET sans == Collect(SanValue, ext.val[1])
             IN  IF ~sans.ok THEN sans ELSE Ok(ValueList(sans.val))

GetExpiration(cer) ==
    LET expiration == FromTimestamp(cer.not_after)
    IN  IF expiration = None THEN Err(CerError("Timestamp", None))
        ELSE Ok(ValueDate(expiration[1]))

\* san read before cn
GetRecordSanFirst(cer) ==
    LET cn == GetCommonNames(cer)
        san == GetSans(cer)
        ca == GetCaCommonNames(cer)
        expiration == GetExpiration(cer)
    IN  IF ~san.ok THEN san
        ELSE IF ~cn.ok THEN cn
        ELSE IF ~ca.ok THEN ca
        ELSE IF ~expiration.ok THEN expiration
        ELSE Ok(<<<<"cn", cn.val>>, <<"subject", GetSubject(cer)>>, <<"san", san.val>>,
                  <<"ca", ca.val>>, <<"ca_subject", GetCaSubject(cer)>>,
                  <<"expiration", expiration.val>>>>)

\* cn, san and ca as the example of the command shows them: the single
\* value bare, not in a list
GetRecordBare(cer) ==
    LET Bare(v) == IF v.ok /\ Len(v.val.vals) = 1 THEN Ok(v.val.vals[1]) ELSE v
        cn == Bare(GetCommonNames(cer))
        san == Bare(GetSans(cer))
        ca == Bare(GetCaCommonNames(cer))
        expiration == GetExpiration(cer)
    IN  IF ~cn.ok THEN cn
        ELSE IF ~san.ok THEN san
        ELSE IF ~ca.ok THEN ca
        ELSE IF ~expiration.ok THEN expiration
        ELSE Ok(<<<<"cn", cn.val>>, <<"subject", GetSubject(cer)>>, <<"san", san.val>>,
                  <<"ca", ca.val>>, <<"ca_subject", GetCaSubject(cer)>>,
                  <<"expiration", expiration.val>>>>)

\* each `?` returns the error of its step; the pushes follow in order
GetRecord(cer) ==
    LET cn == GetCommonNames(cer)
    IN  IF ~cn.ok THEN cn
        ELSE LET record1 == Push(Push(RecordNew, "cn", cn.val), "subject", GetSubject(cer))
                 san == GetSans(cer)
        IN  IF ~san.ok THEN san
        ELSE LET record2 == Push(record1, "san", san.val)
                 ca == GetCaCommonNames(cer)
        IN  IF ~ca.ok THEN ca
        ELSE LET record3 == Push(Push(record2, "ca", ca.val), "ca_subject", GetCaSubject(cer))
                 expiration == GetExpiration(cer)
        IN  IF ~expiration.ok THEN expiration
        ELSE Ok(Push(record3, "expiration", expiration.val))

\* the digest in upper-case digits
GetThumbprintUpper(pem) ==
    LET Upper(c) ==
            CASE c = "a" -> "A" [] c = "b" -> "B" [] c = "c" -> "C" [] c = "d" -> "D"
              [] c = "e" -> "E" [] c = "f" -> "F" [] OTHER -> c
        bytes == Sha1Of(pem.contents)
        Digit(k) == Upper(HexDigits[IF k % 2 = 1 THEN (bytes[(k + 1) \div 2] \div 16) + 1
                                    ELSE (bytes[k \div 2] % 16) + 1])
    IN  ValueString(Digit(1) \o Digit(2) \o Digit(3) \o Digit(4) \o Digit(5) \o Digit(6)
                        \o Digit(7) \o Digit(8) \o HexLower(SubSeq(bytes, 5, 20)))

\* a hasher kept from one call to the next: once a call was made, the
\* digest is no longer that of the payload alone
GetThumbprintShared(pem) ==
    ValueString(HexLower(Sha1Of(IF log = <<>> THEN pem.contents ELSE <<>>)))

\* Sha1::from(&pem.contents).hexdigest()
GetThumbprint(pem) == ValueString(HexLower(Sha1Of(pem.contents)))

\* CertContext::friendly_name: an error when the property is not set
GetPfxFriendlyName(cer) ==
    IF cer.friendly = None
    THEN Err(CerError("FriendlyName", Some(Cause("io::Error", "property not found"))))
    ELSE Ok(cer.friendly[1])

\* CertContext::fingerprint(HashAlgorithm::sha1()): the SHA-1 of the encoded
\* certificate, or the error of the hash call
Fingerprint(cer) ==
    IF cer.hash_ok THEN Ok(Sha1Of(cer.der)) ELSE Err(Cause("io::Error", "hash failed"))

GetPfxThumbprint(cer) ==
    LET thumbprint == Fingerprint(cer)
    IN  IF ~thumbprint.ok THEN Err(CerError("Fingerprint", Some(thumbprint.err)))
        ELSE Ok(HexLower(thumbprint.val))

\* Pem::read on one block of the text: the label and the decoded payload
PemRead(block) ==
    IF ~block.footer THEN Err(Cause("PEMError", "IncompletePEM"))
    ELSE LET contents == Base64Decode(block.body)
         IN  IF ~contents.ok THEN Err(Cause("PEMError", "Base64DecodeError"))
             ELSE Ok([label |-> block.label, contents |-> contents.val])

\* Pem::parse_x509
ParseX509(pem) == FromDer(pem.contents)

\* the closure of get_pem_values, on one item of Pem::iter_from_buffer
PemValue(block) ==
    LET pem == PemRead(block)
    IN  IF ~pem.ok THEN Err(CerError("Pem", Some(pem.err)))
        ELSE LET cer == ParseX509(pem.val)
        IN  IF ~cer.ok THEN Err(CerError("Parse", Some(cer.err)))
        ELSE LET record == GetRecord(cer.val)
        IN  IF ~record.ok THEN record
        ELSE Ok(ValueRecord(Push(record.val, "thumbprint", GetThumbprint(pem.val))))

\* the closure of get_pfx_values, on one certificate of the store
PfxValue(cer) ==
    LET pem == FromDer(cer.der)
    IN  IF ~pem.ok THEN Err(CerError("Der", Some(pem.err)))
        ELSE LET record == GetRecord(pem.val)
        IN  IF ~record.ok THEN record
        ELSE LET friendly == GetPfxFriendlyName(cer)
        IN  IF ~friendly.ok THEN friendly
        ELSE LET thumbprint == GetPfxThumbprint(cer)
        IN  IF ~thumbprint.ok THEN thumbprint
        ELSE Ok(ValueRecord(Push(Push(record.val, "friendly", ValueString(friendly.val)),
                                 "thumbprint", ValueString(thumbprint.val))))

\* PfxImportOptions::import: the certificates of the store, or an error for
\* a container that is corrupt or opened with another password than its own
PfxImport(data, password) ==
    IF data.corrupt \/ data.password # password
    THEN Err(Cause("io::Error", "import failed"))
    ELSE Ok(data.certs)

\* EvaluatedCall::has_flag and get_flag_value on the named arguments of the
\* call: an argument is absent, given without a value, or given with one
Absent == [given |-> FALSE]
Given(value) == [given |-> TRUE, value |-> value]

HasFlag(arg) ==
    IF ~arg.given THEN Ok(FALSE)
    ELSE IF arg.value = None THEN Ok(TRUE)
    ELSE IF arg.value[1].type = "bool" THEN Ok(arg.value[1].bool)
    ELSE Err(Cause("ShellError", "CantConvert to bool from " \o arg.value[1].type))

GetFlagValue(arg) == IF arg.given THEN arg.value ELSE None

\* Value::as_str
ValueAsStr(v) ==
    IF v.type = "string" THEN Ok(v.str)
    ELSE Err(Cause("ShellError", "CantConvert to string from " \o v.type))

\* ------------------------------------------------------------------ inputs

SeqsUpTo(S, n) == UNION {[1..k -> S] : k \in 0..n}

\* a PEM block of the text: its label, the base64 text between the BEGIN
\* and END lines, and whether the END line is there
Block(body) == [label |-> "CERTIFICATE", body |-> body, footer |-> TRUE]

PemBlocks ==
    {Block(b) : b \in {B64Example, B64Bare, B64TwoCn, B64BadCn, B64BadCa, B64SanIp,
                       B64SanUri, B64SanTwice, B64BadExp, B64SanBroken,
                       B64Garbage}}
        \cup {Block(<<"M", "I", "I", "B", "A", "Q", "=">>),
              [label |-> "CERTIFICATE", body |-> B64Example, footer |-> FALSE]}

\* a text is the sequence of the PEM blocks it holds, in document order
Texts == SeqsUpTo(PemBlocks, MaxCerts)

\* a certificate of an imported store (CertContext): its encoding, its
\* friendly-name property if set, and whether hashing it succeeds
Handle(der, friendly, hash_ok) == [der |-> der, friendly |-> friendly, hash_ok |-> hash_ok]

Handles ==
    {Handle(DerExample, Some("my cert"), TRUE),
     Handle(DerTwoCn, Some("second"), TRUE),
     Handle(DerBare, None, TRUE),
     Handle(DerExample, None, FALSE),
     Handle(DerBadExp, None, FALSE),
     Handle(DerGarbage, None, TRUE)}

\* a PKCS#12 container: corrupt or not, the password that opens it, and the
\* certificates it holds
Container(corrupt, password, certs) ==
    [corrupt |-> corrupt, password |-> password, certs |-> certs]

Containers ==
    {Container(TRUE, None, <<>>)}
        \cup {Container(FALSE, p, c) : p \in {None, Some("secret")},
                                       c \in SeqsUpTo(Handles, MaxCerts)}

Inputs ==
    {ValueString(t) : t \in Texts} \cup {ValueBinary(c) : c \in Containers}
        \cup {ValueNothing, ValueInt(5), ValueBool(TRUE)}

ListArgs ==
    {Absent, Given(None), Given(Some(ValueBool(TRUE))), Given(Some(ValueBool(FALSE))),
     Given(Some(ValueString("yes")))}

PasswordArgs ==
    {Absent, Given(Some(ValueString("secret"))), Given(Some(ValueString("wrong"))),
     Given(Some(ValueInt(5)))}

Calls == [list : ListArgs, password : PasswordArgs]

\* the inputs and calls of the specification of repeated calls
ReplayInputs ==
    {ValueString(<<>>), ValueString(<<Block(B64Example)>>),
     ValueString(<<Block(B64TwoCn), Block(B64Bare)>>),
     ValueString(<<Block(B64Bare), Block(B64SanIp)>>),
     ValueBinary(Container(FALSE, Some("secret"), <<Handle(DerExample, Some("my cert"), TRUE)>>)),
     ValueBinary(Container(FALSE, None, <<Handle(DerTwoCn, Some("second"), TRUE)>>)),
     ValueBinary(Container(TRUE, None, <<>>)),
     ValueInt(5)}

ReplayCalls == [list : {Absent, Given(None)}, password : PasswordArgs]

Init ==
    /\ pc = "idle"
    /\ input = ValueNothing
    /\ call = [list |-> Absent, password |-> Absent]
    /\ iter = <<>>
    /\ values = <<>>
    /\ result = None
    /\ trace = <<>>
    /\ log = <<>>
    /\ digest = [der \in Ders |-> Sha1State(der)]

\* ---------------------------------------------------------------- command.rs

\* a type name that does not depend on the value
GetTypeAny(v) == "any"

\* Value::get_type, as the message prints it
GetType(v) == v.type

\* the last value instead of the first when the flag is unset
ListOrFirstLast(vals, list) ==
    LET has_flag == HasFlag(list)
    IN  IF ~has_flag.ok THEN Err(ShellToLabeledError(has_flag.err))
        ELSE IF has_flag.val THEN Ok(ValueList(vals))
        ELSE IF vals = <<>> THEN Err(LabeledErrorNew("no certificates in file"))
        ELSE Ok(vals[Len(vals)])

\* the two ends of run: the whole list, or its first value
ListOrFirst(vals, list) ==
    LET has_flag == HasFlag(list)
    IN  IF ~has_flag.ok THEN Err(ShellToLabeledError(has_flag.err))
        ELSE IF has_flag.val THEN Ok(ValueList(vals))
        ELSE IF vals = <<>> THEN Err(LabeledErrorNew("no certificates in file"))
        ELSE Ok(Head(vals))

\* the host calls run with an input and the named arguments
Invoke(in, c) ==
    /\ pc = "idle"
    /\ pc' = "run"
    /\ input' = in
    /\ call' = c
    /\ result' = None
    /\ trace' = <<>>
    /\ UNCHANGED <<iter, values, log, digest>>

\* a failing item is left out and the next one is read
FailSkip(err, steps) ==
    /\ iter # <<>>
    /\ iter' = Tail(iter)
    /\ trace' = trace \o steps
    /\ UNCHANGED <<pc, input, call, values, result, log, digest>>

\* the decoder fails: run returns the error and the collected values are gone
Fail(err, steps) ==
    /\ pc' = "done"
    /\ result' = Some(Err(ToLabeledError(err)))
    /\ trace' = trace \o steps
    /\ iter' = <<>>
    /\ values' = <<>>
    /\ UNCHANGED <<input, call, log, digest>>

\* text input: get_pem_values starts to iterate the blocks of the text
RunString ==
    /\ pc = "run"
    /\ input.type = "string"
    /\ pc' = "pem"
    /\ iter' = input.str
    /\ values' = <<>>
    /\ trace' = Append(trace, <<"get_pem_values", 0>>)
    /\ UNCHANGED <<input, call, result, log, digest>>

\* one item of the iterator goes through the closure and into the Vec
PemNext ==
    /\ pc = "pem"
    /\ iter # <<>>
    /\ LET value == PemValue(Head(iter))
           step == <<<<"pem", Len(values) + 1>>>>
       IN  IF value.ok
           THEN /\ values' = Append(values, value.val)
                /\ iter' = Tail(iter)
                /\ trace' = trace \o step
                /\ UNCHANGED <<pc, input, call, result, log, digest>>
           ELSE Fail(value.err, step)

\* the iterator is done: run returns the list or its first value
PemReturn ==
    /\ pc = "pem"
    /\ iter = <<>>
    /\ pc' = "done"
    /\ result' = Some(ListOrFirst(values, call.list))
    /\ trace' = Append(trace, <<"has_flag", 0>>)
    /\ UNCHANGED <<input, call, iter, values, log, digest>>

\* a password that is not a string is taken as no password
OpenPfxAnyPassword(data, password) ==
    LET given == IF password = None \/ ~ValueAsStr(password[1]).ok THEN None
                 ELSE Some(ValueAsStr(password[1]).val)
        store == PfxImport(data, given)
    IN  [store |-> IF store.ok THEN store ELSE Err(CerError("Pfx", Some(store.err))),
         steps |-> (IF password = None THEN <<>> ELSE <<<<"as_str", 0>>>>)
                       \o <<<<"import", 0>>>>]

\* the head of get_pfx_values: the password if one is given, then the import
OpenPfx(data, password) ==
    IF password # None /\ ~ValueAsStr(password[1]).ok
    THEN [store |-> Err(CerError("Password", Some(ValueAsStr(password[1]).err))),
          steps |-> <<<<"as_str", 0>>>>]
    ELSE LET given == IF password = None THEN None ELSE Some(ValueAsStr(password[1]).val)
             store == PfxImport(data, given)
             steps == (IF password = None THEN <<>> ELSE <<<<"as_str", 0>>>>)
                          \o <<<<"import", 0>>>>
         IN  [store |-> IF store.ok THEN store ELSE Err(CerError("Pfx", Some(store.err))),
              steps |-> steps]

\* binary input: get_pfx_values opens the container
RunBinary ==
    /\ pc = "run"
    /\ input.type = "binary"
    /\ LET open == OpenPfx(input.bin, GetFlagValue(call.password))
           steps == <<<<"get_pfx_values", 0>>>> \o open.steps
       IN  IF open.store.ok
           THEN /\ pc' = "pfx"
                /\ iter' = open.store.val
                /\ values' = <<>>
                /\ trace' = trace \o steps
                /\ UNCHANGED <<input, call, result, log, digest>>
           ELSE Fail(open.store.err, steps)

\* one certificate of the store goes through the closure and into the Vec
PfxNext ==
    /\ pc = "pfx"
    /\ iter # <<>>
    /\ LET value == PfxValue(Head(iter))
           step == <<<<"pfx", Len(values) + 1>>>>
       IN  IF value.ok
           THEN /\ values' = Append(values, value.val)
                /\ iter' = Tail(iter)
                /\ trace' = trace \o step
                /\ UNCHANGED <<pc, input, call, result, log, digest>>
           ELSE Fail(value.err, step)

PfxReturn ==
    /\ pc = "pfx"
    /\ iter = <<>>
    /\ pc' = "done"
    /\ result' = Some(ListOrFirst(values, call.list))
    /\ trace' = Append(trace, <<"has_flag", 0>>)
    /\ UNCHANGED <<input, call, iter, values, log, digest>>

\* any other input: the error names its type
RunOther ==
    /\ pc = "run"
    /\ input.type \notin {"string", "binary"}
    /\ pc' = "done"
    /\ result' = Some(Err(WithLabel(LabeledErrorNew("Expected certificate input from pipeline"),
                                    "requires certificate input; got " \o GetType(input),
                                    "head")))
    /\ UNCHANGED <<input, call, iter, values, trace, log, digest>>

\* run has returned: its arguments and locals are dropped, the host has the
\* result and remembers the first MaxLog calls
Return ==
    /\ pc = "done"
    /\ pc' = "idle"
    /\ input' = ValueNothing
    /\ call' = [list |-> Absent, password |-> Absent]
    /\ iter' = <<>>
    /\ values' = <<>>
    /\ result' = None
    /\ trace' = <<>>
    /\ log' = IF Len(log) < MaxLog
              THEN Append(log, [input |-> input, call |-> call, result |-> result[1]])
              ELSE log
    /\ UNCHANGED digest

Step ==
    \/ RunString
    \/ PemNext
    \/ PemReturn
    \/ RunBinary
    \/ PfxNext
    \/ PfxReturn
    \/ RunOther

\* one call, on any input
Next ==
    \/ pc = "idle" /\ \E in \in Inputs, c \in Calls : Invoke(in, c)
    \/ Step

Spec == Init /\ [][Next]_vars

\* calls one after the other
NextCalls ==
    \/ pc = "idle" /\ \E in \in ReplayInputs, c \in ReplayCalls : Invoke(in, c)
    \/ Step
    \/ Return

SpecCalls == Init /\ [][NextCalls]_vars

\* -------------------------------------------------------------- properties
\* What the properties below say about an input is read from the input
\* itself, not from the operators above.

Last(s) == s[Len(s)]
Returned == pc = "done"
Res == result[1]
IsText == input.type = "string"
IsPfx == input.type = "binary"

\* the decoder returned Ok: run went on to has_flag
Decoded == Returned /\ trace # <<>> /\ Last(trace) = <<"has_flag", 0>>

\* the payloads the fixture blocks carry, and the SHA-1 of each in lower-case
\* hexadecimal (as sha1sum prints it)
Known ==
    <<[body |-> B64Example, der |-> DerExample,
       sha1 |-> "77808fe4d3a928c1bcece7ab2010e9c42e0f47ca"],
      [body |-> B64Bare, der |-> DerBare,
       sha1 |-> "c191f56e11b8a760669e367b8521c69645fd5bca"],
      [body |-> B64TwoCn, der |-> DerTwoCn,
       sha1 |-> "3dd6f8290e5bb1ec7257b3be72d339a2851dd637"],
      [body |-> B64BadCn, der |-> DerBadCn,
       sha1 |-> "70b99f28908ad7022870996e111721c62e8ebe46"],
      [body |-> B64BadCa, der |-> DerBadCa,
       sha1 |-> "4234845de34a1f990744efc5fa3080c7399123f3"],
      [body |-> B64SanIp, der |-> DerSanIp,
       sha1 |-> "98739e98099bf0b577ce3b329b386aa9299a5daf"],
      [body |-> B64SanUri, der |-> DerSanUri,
       sha1 |-> "7e56cb986a5f34f4d1f922209e9a4d1ee649f342"],
      [body |-> B64SanTwice, der |-> DerSanTwice,
       sha1 |-> "cdfd3c34ceec32aef3612ff01aec39e0583dc9e9"],
      [body |-> B64BadExp, der |-> DerBadExp,
       sha1 |-> "df7a85b59f70bbe2423c34b55796f67567f15924"],
      [body |-> B64SanBroken, der |-> DerSanBroken,
       sha1 |-> "d48d04258c250f8f2424e052bea2726222595647"],
      [body |-> B64Garbage, der |-> DerGarbage,
       sha1 |-> "a9993e364706816aba3e25717850c26c9cd0d89d"]>>

KnownOf(sel(_)) == Known[CHOOSE k \in 1..Len(Known) : sel(Known[k])]

\* the block has its END line and well-formed base64 between the lines
BlockDecodes(block) ==
    block.footer /\ \E k \in 1..Len(Known) : Known[k].body = block.body
BlockDer(block) == KnownOf(LAMBDA e : e.body = block.body).der
Sha1Hex(der) == KnownOf(LAMBDA e : e.der = der).sha1

DerParses(der) == \E i \in 1..Len(DerTable) : DerTable[i].der = der /\ DerTable[i].cer.ok
DerCer(der) == DerTable[CHOOSE i \in 1..Len(DerTable) : DerTable[i].der = der].cer.val

\* the values of the common names of a name, and whether each is UTF-8
CnTexts(name) ==
    LET cns == SelectSeq(name, LAMBDA a : a.oid = "CN")
    IN  [i \in 1..Len(cns) |-> ValueString(cns[i].text)]
CnReadable(name) == \A i \in 1..Len(name) : name[i].oid = "CN" => name[i].utf8

\* the subject-alternative-name extensions of a certificate
SanExtensions(cer) == SelectSeq(cer.extensions, LAMBDA e : e.oid = "subjectAltName")
SanAbsent(cer) == SanExtensions(cer) = <<>>
SanMalformed(cer) ==
    Len(SanExtensions(cer)) > 1
        \/ (Len(SanExtensions(cer)) = 1 /\ ~SanExtensions(cer)[1].parsed.ok)
SanWellFormed(cer) == Len(SanExtensions(cer)) = 1 /\ SanExtensions(cer)[1].parsed.ok
SanEntries(cer) == SanExtensions(cer)[1].parsed.val
SanAllDns(cer) == \A i \in 1..Len(SanEntries(cer)) : SanEntries(cer)[i].tag = "DNSName"
SanTexts(cer) == [i \in 1..Len(SanEntries(cer)) |-> ValueString(SanEntries(cer)[i].value)]
SanReadable(cer) == SanAbsent(cer) \/ (SanWellFormed(cer) /\ SanAllDns(cer))

ExpirationInRange(cer) ==
    cer.not_after[1] >= ChronoMinDays /\ cer.not_after[1] <= ChronoMaxDays

\* every field of the record can be read
FieldsReadable(cer) ==
    /\ CnReadable(cer.subject)
    /\ SanReadable(cer)
    /\ CnReadable(cer.issuer)
    /\ ExpirationInRange(cer)

BlockParses(block) == BlockDecodes(block) /\ DerParses(BlockDer(block))
BlockExtracts(block) == BlockParses(block) /\ FieldsReadable(DerCer(BlockDer(block)))
HandleExtracts(h) ==
    /\ DerParses(h.der)
    /\ FieldsReadable(DerCer(h.der))
    /\ h.friendly # None
    /\ h.hash_ok

ThumbprintOf(value) == Get(value.rec, "thumbprint")

\* C1, as stated: for a text of N PEM blocks that all decode and parse,
\* get_pem_values returns N records in document order, the i-th with the
\* SHA-1 of the i-th payload in lower-case hexadecimal as its thumbprint.
C1_DecodeAndParseSuffice ==
    (Returned /\ IsText /\ \A i \in 1..Len(input.str) : BlockParses(input.str[i]))
        => /\ Decoded
           /\ Len(values) = Len(input.str)
           /\ \A i \in 1..Len(values) :
                  ThumbprintOf(values[i]) = ValueString(Sha1Hex(BlockDer(input.str[i])))

\* C1, amended: for a text of N PEM blocks (N >= 0) that all decode, parse
\* and have readable fields (UTF-8 common names, a SAN extension absent or
\* single, well-formed and all DNS, a representable expiration),
\* get_pem_values returns exactly N records in document order, the i-th with
\* the lower-case hexadecimal SHA-1 of the i-th decoded payload as its
\* thumbprint; N = 0 gives the empty sequence and no error.
C1_PemRecords ==
    (Returned /\ IsText /\ \A i \in 1..Len(input.str) : BlockExtracts(input.str[i]))
        => /\ Decoded
           /\ Len(values) = Len(input.str)
           /\ \A i \in 1..Len(values) :
                  /\ values[i].type = "record"
                  /\ ThumbprintOf(values[i]) = ValueString(Sha1Hex(BlockDer(input.str[i])))

C1_Witness ==
    /\ Returned
    /\ input = ValueString(<<Block(B64TwoCn), Block(B64Example)>>)
    /\ Len(values) = 2
    /\ ThumbprintOf(values[1]) = ValueString("3dd6f8290e5bb1ec7257b3be72d339a2851dd637")
    /\ ThumbprintOf(values[2]) = ValueString("77808fe4d3a928c1bcece7ab2010e9c42e0f47ca")

\* C2: a call is all-or-nothing: when the extraction of one certificate of
\* the input fails, at any position, on the PEM path or the PFX path, with
\* the list flag set or not, run returns an error, and no record: none of
\* the certificates before the failing one, nothing of the failing one.
C2_AllOrNothing ==
    (Returned /\ \/ IsText /\ \E i \in 1..Len(input.str) : ~BlockExtracts(input.str[i])
                 \/ IsPfx /\ \E i \in 1..Len(input.bin.certs) :
                                 ~HandleExtracts(input.bin.certs[i]))
        => /\ ~Res.ok
           /\ DOMAIN Res.err = {"msg", "help", "labels"}
           /\ values = <<>>

C2_Witness ==
    /\ Returned
    /\ input = ValueString(<<Block(B64Example), Block(B64SanIp)>>)
    /\ call.list = Absent
    /\ ~Res.ok
    /\ values = <<>>

\* the list flag as the host gives it: set, unset (or neither: not a boolean)
ListSet == call.list.given /\ (call.list.value = None \/ call.list.value = Some(ValueBool(TRUE)))
ListUnset == ~call.list.given \/ call.list.value = Some(ValueBool(FALSE))

\* C3: once decoding succeeded with the sequence S of records, on either
\* path: with the list flag set run returns S as a list (the empty list
\* when S is empty); with the flag unset it returns the first record of S,
\* and the error "no certificates in file" when S is empty.
C3_ListOrFirst ==
    Decoded =>
        /\ ListSet => Res = Ok(ValueList(values))
        /\ (ListUnset /\ values # <<>>) => Res = Ok(values[1])
        /\ (ListUnset /\ values = <<>>) =>
               ~Res.ok /\ Res.err.msg = "no certificates in file"

C3_Witness ==
    /\ Decoded
    /\ IsPfx
    /\ ListUnset
    /\ Len(values) = 2
    /\ values[1] # values[2]
    /\ Res = Ok(values[1])

SanErrorMessage == "cannot read certificate subject alternative names"

\* C4: get_sans has three outcomes: without the extension the empty list;
\* with a malformed or repeated extension SanError; with a well-formed one
\* the values of its entries in order when all are DNS names, and SanError,
\* with no partial list, when one entry at any position is not.  Seen right
\* after the first certificate of a text, one whose subject common names are
\* readable, was processed: its record holds the list, or the call has
\* failed with the SAN error and holds no record.
C4_SansOutcomes ==
    (IsText /\ trace # <<>> /\ Last(trace) = <<"pem", 1>> /\ BlockParses(input.str[1])
        /\ CnReadable(DerCer(BlockDer(input.str[1])).subject))
        => LET cer == DerCer(BlockDer(input.str[1]))
               failed == Returned /\ ~Res.ok /\ Res.err.msg = SanErrorMessage
                             /\ values = <<>>
               san == Get(values[1].rec, "san")
           IN  /\ SanAbsent(cer) => ~failed /\ (values # <<>> => san = ValueList(<<>>))
               /\ SanMalformed(cer) => failed
               /\ (SanWellFormed(cer) /\ SanAllDns(cer)) =>
                      ~failed /\ (values # <<>> => san = ValueList(SanTexts(cer)))
               /\ (SanWellFormed(cer) /\ ~SanAllDns(cer)) => failed

C4_Witness ==
    /\ Returned
    /\ input = ValueString(<<Block(B64SanUri)>>)
    /\ ~Res.ok
    /\ Res.err.msg = SanErrorMessage
    /\ values = <<>>

\* the name the message prints for the type of a value
TypeName(v) ==
    CASE v = ValueNothing -> "nothing"
      [] v = ValueInt(5) -> "int"
      [] v = ValueBool(TRUE) -> "bool"

StepNames == {trace[i][1] : i \in 1..Len(trace)}

\* C5: run dispatches on the type of the input: a text goes to the PEM
\* decoder only, a binary value to the PFX decoder only, and any other value
\* is refused with a type-mismatch error that names its type, no decoder
\* having run, whatever the flags.
C5_Dispatch ==
    /\ IsText => StepNames \subseteq {"get_pem_values", "pem", "has_flag"}
    /\ IsPfx => StepNames \subseteq {"get_pfx_values", "as_str", "import", "pfx", "has_flag"}
    /\ (Returned /\ IsText) => trace[1] = <<"get_pem_values", 0>>
    /\ (Returned /\ IsPfx) => trace[1] = <<"get_pfx_values", 0>>
    /\ (pc # "idle" /\ ~IsText /\ ~IsPfx) =>
           /\ trace = <<>>
           /\ Returned =>
                  /\ ~Res.ok
                  /\ Res.err.msg = "Expected certificate input from pipeline"
                  /\ Len(Res.err.labels) = 1
                  /\ Res.err.labels[1].text
                         = "requires certificate input; got " \o TypeName(input)

C5_Witness ==
    /\ Returned
    /\ input = ValueInt(5)
    /\ call.list = Given(None)
    /\ trace = <<>>
    /\ ~Res.ok
    /\ Res.err.labels[1].text = "requires certificate input; got int"

\* the messages of the variants of CerError
TimestampMessage == "cannot parse certificate timestamp"
TaxonomyMessages ==
    {"cannot read certificate", "cannot parse certificate", "cannot read common name",
     "cannot read friendly name", "cannot read description",
     "description is not valid utf8", SanErrorMessage, TimestampMessage,
     "cannot parse pfx", "password is not a string", "cannot parse der",
     "cannot read fingerprint"}

TaxonomyFailure == Returned /\ ~Res.ok /\ Res.err.msg \in TaxonomyMessages

\* no step is taken twice in a call
NoRetry == \A i, j \in 1..Len(trace) : trace[i] = trace[j] => i = j

\* the items of the input: the blocks of a text, the certificates of a store
Items == IF IsText THEN input.str ELSE input.bin.certs
ItemExtracts(k) == IF IsText THEN BlockExtracts(Items[k]) ELSE HandleExtracts(Items[k])
ItemSteps == {i \in 1..Len(trace) : trace[i][1] \in {"pem", "pfx"}}

\* a failed call went through its items once, up to the first that fails
StopsAtFailure ==
    \A k \in 1..Len(Items) :
        (~ItemExtracts(k) /\ \A j \in 1..(k - 1) : ItemExtracts(j))
            => Cardinality(ItemSteps) \in {0, k} /\ Last(trace)[1] # "has_flag"

IsStringList(v, texts) ==
    /\ v.type = "list"
    /\ v = ValueList(texts)
    /\ \A i \in 1..Len(v.vals) : v.vals[i].type = "string"

\* the record of a certificate, read from a PFX store or from a PEM text
RecordShape(v, cer, pfx) ==
    /\ v.type = "record"
    /\ Len(v.rec) = Cardinality(Columns(v.rec))
    /\ Columns(v.rec) = {"cn", "subject", "san", "ca", "ca_subject", "expiration",
                           "thumbprint"} \cup (IF pfx THEN {"friendly"} ELSE {})
    /\ IsStringList(Get(v.rec, "cn"), CnTexts(cer.subject))
    /\ IsStringList(Get(v.rec, "ca"), CnTexts(cer.issuer))
    /\ IsStringList(Get(v.rec, "san"), IF SanAbsent(cer) THEN <<>> ELSE SanTexts(cer))
    /\ Get(v.rec, "subject").type = "string"
    /\ Get(v.rec, "ca_subject").type = "string"
    /\ Get(v.rec, "thumbprint").type = "string"
    /\ Get(v.rec, "expiration").type = "date"
    /\ pfx => Get(v.rec, "friendly").type = "string"

ItemCer(k) == DerCer(IF IsText THEN BlockDer(Items[k]) ELSE Items[k].der)

RecordError(cer) ==
    IF ~CnReadable(cer.subject) THEN "cannot read common name"
    ELSE IF ~SanReadable(cer) THEN SanErrorMessage
    ELSE IF ~CnReadable(cer.issuer) THEN "cannot read common name"
    ELSE IF ~ExpirationInRange(cer) THEN TimestampMessage
    ELSE ""

BlockError(block) ==
    IF ~BlockDecodes(block) THEN "cannot read certificate"
    ELSE IF ~DerParses(BlockDer(block)) THEN "cannot parse certificate"
    ELSE RecordError(DerCer(BlockDer(block)))

HandleError(h) ==
    IF ~DerParses(h.der) THEN "cannot parse der"
    ELSE IF RecordError(DerCer(h.der)) # "" THEN RecordError(DerCer(h.der))
    ELSE IF h.friendly = None THEN "cannot read friendly name"
    ELSE IF ~h.hash_ok THEN "cannot read fingerprint"
    ELSE ""

FirstError(items, F(_)) ==
    LET bad == {i \in 1..Len(items) : F(items[i]) # ""}
    IN  IF bad = {} THEN ""
        ELSE F(items[CHOOSE i \in bad : \A j \in bad : i <= j])

PasswordGiven == call.password.given /\ call.password.value # None
PasswordIsString == PasswordGiven /\ call.password.value[1].type = "string"

\* the container opens with the password of the call
PfxOpens ==
    /\ ~input.bin.corrupt
    /\ \/ ~PasswordGiven /\ input.bin.password = None
       \/ PasswordIsString /\ input.bin.password = Some(call.password.value[1].str)

ExpectedError ==
    IF IsText THEN FirstError(input.str, BlockError)
    ELSE IF PasswordGiven /\ ~PasswordIsString THEN "password is not a string"
    ELSE IF ~PfxOpens THEN "cannot parse pfx"
    ELSE FirstError(input.bin.certs, HandleError)

\* C10: the first step that fails decides the error of the call.  A PEM
\* block goes through decode (Pem), parse (Parse), then cn, san, ca,
\* expiration; a PFX certificate through parse (Der), cn, san, ca,
\* expiration, friendly name, fingerprint; items are taken in order; on the
\* PFX path the password check precedes the import and the import precedes
\* every certificate; "no certificates in file" only follows a decode that
\* succeeded.
C10_FirstFailureDecides ==
    (Returned /\ (IsText \/ IsPfx)) =>
        /\ ExpectedError # "" => ~Res.ok /\ Res.err.msg = ExpectedError
        /\ ExpectedError = "" => Decoded
        /\ (~Res.ok /\ Res.err.msg = "no certificates in file") =>
               Decoded /\ ExpectedError = "" /\ Items = <<>>
        /\ (PasswordGiven /\ ~PasswordIsString) => "import" \notin StepNames
        /\ \A i \in 1..Len(trace) :
               trace[i][1] = "pfx" => \E j \in 1..(i - 1) : trace[j][1] = "import"
        /\ \A i, j \in 1..Len(trace) :
               (trace[i][1] = "as_str" /\ trace[j][1] = "import") => i < j

C10_Witness ==
    /\ Returned
    /\ input = ValueString(<<Block(B64SanTwice), Block(B64BadCn)>>)
    /\ ~Res.ok
    /\ Res.err.msg = SanErrorMessage

\* the earlier calls the host remembers that had the input of this one
Earlier == {k \in 1..Len(log) : log[k].input = input}

\* C8: the password flag only matters for PFX input.  For a text the
\* result is the same whether the flag is absent, a string or not a string.
\* For a container, a password that is not a string fails with
\* PasswordTypeError before any import; without the flag the import is made
\* with no password; and an import that fails (wrong password, corrupt
\* container) fails the call with PfxError and no record.
C8_PasswordOnlyForPfx ==
    /\ (Returned /\ IsText) =>
           \A k \in Earlier : log[k].call.list = call.list => log[k].result = Res
    /\ (Returned /\ IsPfx) =>
           /\ (PasswordGiven /\ ~PasswordIsString) =>
                  /\ ~Res.ok
                  /\ Res.err.msg = "password is not a string"
                  /\ "import" \notin StepNames
                  /\ values = <<>>
           /\ ~PasswordGiven =>
                  /\ trace[2] = <<"import", 0>>
                  /\ (~input.bin.corrupt /\ input.bin.password = None) =>
                         (Res.ok \/ Res.err.msg # "cannot parse pfx")
           /\ ((~PasswordGiven \/ PasswordIsString) /\ ~PfxOpens) =>
                  /\ ~Res.ok
                  /\ Res.err.msg = "cannot parse pfx"
                  /\ "import" \in StepNames
                  /\ values = <<>>

C8_Witness ==
    /\ Returned
    /\ input = ValueString(<<Block(B64Example)>>)
    /\ Len(log) = 1
    /\ log[1].input = input
    /\ log[1].call = [list |-> Absent, password |-> Given(Some(ValueString("secret")))]
    /\ call = [list |-> Absent, password |-> Given(Some(ValueInt(5)))]
    /\ Res.ok
    /\ log[1].result = Res

\* C9: the result of a call is a function of its input and flags alone:
\* a call on a PEM text returns what every earlier call on that text with
\* the same flags returned, thumbprints included, whatever calls were made
\* in between.
C9_SameCallSameResult ==
    (Returned /\ IsText) =>
        \A k \in Earlier : log[k].call = call => log[k].result = Res

C9_Witness ==
    /\ Returned
    /\ input = ValueString(<<Block(B64TwoCn), Block(B64Bare)>>)
    /\ call = [list |-> Given(None), password |-> Absent]
    /\ Len(log) = 1
    /\ log[1].input = input
    /\ log[1].call = call
    /\ Res.ok
    /\ Len(Res.val.vals) = 2
    /\ ThumbprintOf(Res.val.vals[1]) = ValueString("3dd6f8290e5bb1ec7257b3be72d339a2851dd637")
    /\ log[1].result = Res

====
